---------------------------- MODULE Spec2Model ----------------------------
(***************************************************************************)
(* Model of unit-converter.js: the conversionFactors registry, the seven   *)
(* converters, formatNumber, the per-domain update handlers, the           *)
(* navigation click handler and the DOMContentLoaded handler.              *)
(*                                                                         *)
(* Numbers.  A JavaScript number is modelled as one of                     *)
(*   [k |-> "nan"], [k |-> "inf", neg], [k |-> "fin", neg, num, den]       *)
(* and the value undefined as [k |-> "undef"].  A finite number is the     *)
(* exact rational num/den; num and den are naturals of any size, written   *)
(* as sequences of limbs (see below).                                      *)
(* Arithmetic is exact: the binary64 representation error of the real     *)
(* program (relative 2^-53) is outside the model, and so is overflow to    *)
(* Infinity.  -0 and +0 are one value (num === 0 and !value do not tell    *)
(* them apart).  Strings are TLA+ strings.                                 *)
(***************************************************************************)
EXTENDS Integers, Sequences, FiniteSets, TLC

VARIABLES
    conversionFactors,  \* the registry object: domain -> (unit -> factor)
    fields,             \* per domain: the text of the value field, the two selected
                        \* units and the text of the result field
    loaded,             \* the DOMContentLoaded handler has run
    linkActive,         \* the nav links that carry the class 'active'
    elemActive,         \* the element ids that carry the class 'active'
    lastLink,           \* the nav link clicked last, <<>> before any click
    events,             \* the number of UI events dispatched so far
    pc,                 \* direct calls: "idle", "ready", "returned", "back", "formatted"
    fn,                 \* direct calls: the function called
    arg,                \* direct calls: its arguments
    ret,                \* direct calls: what the converter returned
    ret2,               \* direct calls: what converting ret back returned
    out                 \* direct calls: what formatNumber returned

vars == <<conversionFactors, fields, loaded, linkActive, elemActive, lastLink, events,
          pc, fn, arg, ret, ret2, out>>

(***************************************************************************)
(* Naturals of any size: sequences of limbs in 0..Base-1, least            *)
(* significant first, without high zero limbs; <<>> is 0.  Sequences of    *)
(* decimal digits (least significant first) stand between limbs and text.  *)
(***************************************************************************)
Base == 10000
LimbDigits == 4

Max(S) == CHOOSE x \in S : \A y \in S : y <= x
Min(S) == CHOOSE x \in S : \A y \in S : x <= y

\* a without its high zeros
BNorm(a) ==
    LET nz == {i \in 1..Len(a) : a[i] /= 0}
    IN  IF nz = {} THEN <<>> ELSE SubSeq(a, 1, Max(nz))

Pow10Small(j) == CASE j = 0 -> 1 [] j = 1 -> 10 [] j = 2 -> 100 [] j = 3 -> 1000

At(a, i) == IF i <= Len(a) THEN a[i] ELSE 0

\* limbs of the natural written by the digits d
LimbsOf(d) ==
    [i \in 1..((Len(d) + LimbDigits - 1) \div LimbDigits) |->
        At(d, 4 * i - 3) + 10 * At(d, 4 * i - 2) + 100 * At(d, 4 * i - 1)
        + 1000 * At(d, 4 * i)]

\* digits of the natural with limbs a
DigitsOf(a) ==
    BNorm([j \in 1..(LimbDigits * Len(a)) |->
        (a[(j + LimbDigits - 1) \div LimbDigits] \div Pow10Small((j - 1) % LimbDigits)) % 10])

RECURSIVE DigitsFromNat(_)
DigitsFromNat(n) == IF n = 0 THEN <<>> ELSE <<n % 10>> \o DigitsFromNat(n \div 10)

BFromNat(n) == LimbsOf(DigitsFromNat(n))

BRest(a) == IF a = <<>> THEN <<>> ELSE Tail(a)
BLow(a) == IF a = <<>> THEN 0 ELSE Head(a)

RECURSIVE BAddC(_, _, _)
BAddC(a, b, c) ==
    IF a = <<>> /\ b = <<>> THEN (IF c = 0 THEN <<>> ELSE <<c>>)
    ELSE LET s == BLow(a) + BLow(b) + c
         IN  <<s % Base>> \o BAddC(BRest(a), BRest(b), s \div Base)

BAdd(a, b) == BAddC(a, b, 0)

\* a - b - c for a >= b + c
RECURSIVE BSubC(_, _, _)
BSubC(a, b, c) ==
    IF a = <<>> THEN <<>>
    ELSE LET s == BLow(a) - BLow(b) - c
         IN  IF s < 0 THEN <<s + Base>> \o BSubC(BRest(a), BRest(b), 1)
             ELSE <<s>> \o BSubC(BRest(a), BRest(b), 0)

BSub(a, b) == BNorm(BSubC(a, b, 0))

\* -1, 0, 1 as a < b, a = b, a > b
BCmp(a, b) ==
    IF Len(a) < Len(b) THEN -1
    ELSE IF Len(a) > Len(b) THEN 1
    ELSE LET diff == {i \in 1..Len(a) : a[i] /= b[i]}
         IN  IF diff = {} THEN 0
             ELSE IF a[Max(diff)] < b[Max(diff)] THEN -1 ELSE 1

RECURSIVE BMulDigitC(_, _, _)
BMulDigitC(a, d, c) ==
    IF a = <<>> THEN (IF c = 0 THEN <<>> ELSE <<c>>)
    ELSE LET s == Head(a) * d + c
         IN  <<s % Base>> \o BMulDigitC(Tail(a), d, s \div Base)

\* a * d for a limb d
BMulDigit(a, d) == IF d = 0 THEN <<>> ELSE BMulDigitC(a, d, 0)

\* a * 10^n
BShift(a, n) ==
    IF a = <<>> \/ n <= 0 THEN a
    ELSE [i \in 1..(n \div LimbDigits) |-> 0] \o BMulDigit(a, Pow10Small(n % LimbDigits))

BOne == <<1>>

BPow10(n) == BShift(BOne, n)

RECURSIVE BMul(_, _)
BMul(a, b) ==
    IF a = <<>> \/ b = <<>> THEN <<>>
    ELSE BAdd(BMulDigit(a, Head(b)), <<0>> \o BMul(a, Tail(b)))

\* the largest q with q*b <= r, counting down from q, which is not below it
RECURSIVE BQuotFix(_, _, _)
BQuotFix(r, b, q) ==
    IF BCmp(BMulDigit(b, q), r) <= 0 THEN q ELSE BQuotFix(r, b, q - 1)

\* the largest limb q with q*b <= r, for r < Base*b: estimated from the high limbs
BLimbQuot(r, b) ==
    LET n == Len(b)
        est == (At(r, n + 1) * Base + At(r, n)) \div b[n]
    IN  BQuotFix(r, b, IF est > Base - 1 THEN Base - 1 ELSE est)

\* long division of the limbs a[1..i] (a[i] first) by b /= 0, q and r being the
\* quotient and the remainder so far: the quotient
RECURSIVE BDivFrom(_, _, _, _, _)
BDivFrom(a, b, i, q, r) ==
    IF i = 0 THEN BNorm(q)
    ELSE LET r1 == BNorm(<<a[i]>> \o r)
             q1 == BLimbQuot(r1, b)
             r2 == BSub(r1, BMulDigit(b, q1))
             qs == <<q1>> \o q
         IN  IF Len(qs) + Len(r2) >= 0 THEN BDivFrom(a, b, i - 1, qs, r2) ELSE <<>>

\* a divided by b /= 0, rounded down; both are scaled first so that the high limb
\* of the divisor is at least Base/2 and the estimate of a limb is off by 2 at most
BDiv(a, b) ==
    LET d == Base \div (b[Len(b)] + 1)
        a1 == BMulDigit(a, d)
    IN  BDivFrom(a1, BMulDigit(b, d), Len(a1), <<>>, <<>>)

\* a / b rounded to the nearest natural, a tie going up
BDivRound(a, b) == BDiv(BAdd(BMulDigit(a, 2), b), BMulDigit(b, 2))

\* the number of low zeros of the digits d /= <<>>
TrailingZeros(d) == Min({i \in 1..Len(d) : d[i] /= 0}) - 1

(***************************************************************************)
(* JavaScript numbers                                                      *)
(***************************************************************************)
Undefined == [k |-> "undef"]
NaN == [k |-> "nan"]
Inf(neg) == [k |-> "inf", neg |-> neg]

\* the rational (-1)^neg * num / den; zero carries no sign
Fin(neg, num, den) ==
    [k |-> "fin", neg |-> (neg /\ num /= <<>>), num |-> num,
     den |-> IF num = <<>> THEN BOne ELSE den]

\* the decimal (-1)^neg * mant * 10^(-sc) in its one canonical form, mant in digits
Dec(neg, mant, sc) ==
    IF mant = <<>> THEN Fin(FALSE, <<>>, BOne)
    ELSE IF sc <= 0 THEN Fin(neg, BShift(LimbsOf(mant), -sc), BOne)
    ELSE LET z == TrailingZeros(mant)
             c == IF z < sc THEN z ELSE sc
         IN  Fin(neg, LimbsOf(SubSeq(mant, c + 1, Len(mant))), BPow10(sc - c))

\* the literal n * 10^(-sc) of the source text, n an integer
Lit(n, sc) == Dec(n < 0, DigitsFromNat(IF n < 0 THEN -n ELSE n), sc)

Zero == [k |-> "fin", neg |-> FALSE, num |-> <<>>, den |-> <<1>>]

IsFin(x) == x.k = "fin"
IsZero(x) == x.k = "fin" /\ x.num = <<>>

\* ToNumber: undefined becomes NaN
ToNumber(x) == IF x.k = "undef" THEN NaN ELSE x

\* isNaN(x)
isNaN(x) == ToNumber(x).k = "nan"

\* !x for a number or undefined
Falsy(x) == x.k \in {"undef", "nan"} \/ IsZero(x)

JsMul(x0, y0) ==
    LET x == ToNumber(x0)
        y == ToNumber(y0)
    IN  IF x.k = "nan" \/ y.k = "nan" THEN NaN
        ELSE IF x.k = "inf" \/ y.k = "inf"
             THEN (IF IsZero(x) \/ IsZero(y) THEN NaN ELSE Inf(x.neg /= y.neg))
        ELSE Fin(x.neg /= y.neg, BMul(x.num, y.num), BMul(x.den, y.den))

JsDiv(x0, y0) ==
    LET x == ToNumber(x0)
        y == ToNumber(y0)
    IN  IF x.k = "nan" \/ y.k = "nan" THEN NaN
        ELSE IF x.k = "inf" THEN (IF y.k = "inf" THEN NaN ELSE Inf(x.neg /= y.neg))
        ELSE IF y.k = "inf" THEN Zero
        ELSE IF IsZero(y) THEN (IF IsZero(x) THEN NaN ELSE Inf(x.neg /= y.neg))
        ELSE Fin(x.neg /= y.neg, BMul(x.num, y.den), BMul(x.den, y.num))

\* (-1)^xneg * a / d + (-1)^yneg * b / d
AddOver(xneg, a, yneg, b, d) ==
    IF xneg = yneg THEN Fin(xneg, BAdd(a, b), d)
    ELSE IF BCmp(a, b) >= 0 THEN Fin(xneg, BSub(a, b), d)
    ELSE Fin(yneg, BSub(b, a), d)

JsAdd(x0, y0) ==
    LET x == ToNumber(x0)
        y == ToNumber(y0)
    IN  IF x.k = "nan" \/ y.k = "nan" THEN NaN
        ELSE IF x.k = "inf"
             THEN (IF y.k = "inf" /\ y.neg /= x.neg THEN NaN ELSE x)
        ELSE IF y.k = "inf" THEN y
        ELSE AddOver(x.neg, BMul(x.num, y.den), y.neg, BMul(y.num, x.den),
                     BMul(x.den, y.den))

JsNeg(x) ==
    IF x.k = "inf" THEN Inf(~x.neg)
    ELSE IF x.k = "fin" THEN Fin(~x.neg, x.num, x.den)
    ELSE x

JsSub(x0, y0) == JsAdd(x0, JsNeg(ToNumber(y0)))

\* Math.abs
Abs(x0) == LET x == ToNumber(x0) IN
    IF x.k = "inf" THEN Inf(FALSE)
    ELSE IF x.k = "fin" THEN Fin(FALSE, x.num, x.den)
    ELSE x

\* x < y for x and y of the sign neg, c comparing their sizes
LessOfSign(neg, c) == IF neg THEN c > 0 ELSE c < 0

\* x < y; false when either is NaN
JsLess(x0, y0) ==
    LET x == ToNumber(x0)
        y == ToNumber(y0)
    IN  IF x.k = "nan" \/ y.k = "nan" THEN FALSE
        ELSE IF x.k = "inf" THEN x.neg /\ ~(y.k = "inf" /\ y.neg)
        ELSE IF y.k = "inf" THEN ~y.neg
        ELSE IF x.neg /\ ~y.neg THEN TRUE
        ELSE IF ~x.neg /\ y.neg THEN FALSE
        ELSE LessOfSign(x.neg, BCmp(BMul(x.num, y.den), BMul(y.num, x.den)))

\* x === y for numbers
JsEq(x0, y0) ==
    LET x == ToNumber(x0)
        y == ToNumber(y0)
    IN  IF x.k = "nan" \/ y.k = "nan" THEN FALSE
        ELSE IF x.k = "inf" \/ y.k = "inf" THEN x = y
        ELSE x.neg = y.neg /\ BMul(x.num, y.den) = BMul(y.num, x.den)

(***************************************************************************)
(* Strings of digits                                                       *)
(***************************************************************************)
Digits == {"0", "1", "2", "3", "4", "5", "6", "7", "8", "9"}

DigitChar(d) == SubSeq("0123456789", d + 1, d + 1)

DigitVal(c) ==
    CASE c = "0" -> 0 [] c = "1" -> 1 [] c = "2" -> 2 [] c = "3" -> 3
      [] c = "4" -> 4 [] c = "5" -> 5 [] c = "6" -> 6 [] c = "7" -> 7
      [] c = "8" -> 8 [] c = "9" -> 9

StartsWith(s, p) == Len(s) >= Len(p) /\ SubSeq(s, 1, Len(p)) = p

Drop(s, n) == SubSeq(s, n + 1, Len(s))

\* the digits d as text, most significant first; "" for 0
RECURSIVE DigitsToStr(_)
DigitsToStr(d) == IF d = <<>> THEN "" ELSE DigitsToStr(Tail(d)) \o DigitChar(Head(d))

BToStr(a) == DigitsToStr(DigitsOf(a))

\* the digits a string of digits writes
StrToDigits(s) ==
    BNorm([i \in 1..Len(s) |-> DigitVal(SubSeq(s, Len(s) + 1 - i, Len(s) + 1 - i))])

RECURSIVE StrToNat(_)
StrToNat(s) ==
    IF s = "" THEN 0
    ELSE 10 * StrToNat(SubSeq(s, 1, Len(s) - 1)) + DigitVal(SubSeq(s, Len(s), Len(s)))

NatToStr(n) == IF n = 0 THEN "0" ELSE DigitsToStr(DigitsFromNat(n))

RECURSIVE Zeros(_)
Zeros(n) == IF n <= 0 THEN "" ELSE "0" \o Zeros(n - 1)

\* s padded on the left with zeros to at least n characters
PadLeft(s, n) == Zeros(n - Len(s)) \o s

\* the longest prefix of s made of digits
RECURSIVE DigitPrefix(_)
DigitPrefix(s) ==
    IF s = "" \/ Head(s) \notin Digits THEN "" ELSE Head(s) \o DigitPrefix(Tail(s))

RECURSIVE StripTrailingZeros(_)
StripTrailingZeros(s) ==
    IF s /= "" /\ SubSeq(s, Len(s), Len(s)) = "0"
    THEN StripTrailingZeros(SubSeq(s, 1, Len(s) - 1))
    ELSE s

RECURSIVE SkipWhiteSpace(_)
SkipWhiteSpace(s) ==
    IF s /= "" /\ Head(s) = " " THEN SkipWhiteSpace(Tail(s)) ELSE s

(***************************************************************************)
(* Number.prototype.toFixed, parseFloat, toExponential, toLocaleString     *)
(***************************************************************************)
\* |x| * 10^p rounded to the nearest natural, a tie going up, x finite
ScaledRound(x, p) == BDivRound(BShift(x.num, p), BShift(x.den, -p))

\* the digits ds with a point before the last f of them, and the sign
FixedText(neg, ds, f) ==
    (IF neg THEN "-" ELSE "") \o SubSeq(ds, 1, Len(ds) - f)
    \o (IF f = 0 THEN "" ELSE "." \o Drop(ds, Len(ds) - f))

\* x.toFixed(f) for a number x below 10^21 in size
toFixed(x, f) ==
    IF x.k = "nan" THEN "NaN"
    ELSE IF x.k = "inf" THEN (IF x.neg THEN "-Infinity" ELSE "Infinity")
    ELSE FixedText(x.neg, PadLeft(BToStr(ScaledRound(x, f)), f + 1), f)

\* <<the digits s starts with, the rest of s>>
SplitAt(s, n) == <<SubSeq(s, 1, n), Drop(s, n)>>
SplitDigits(s) == SplitAt(s, Len(DigitPrefix(s)))

\* the exponent an optional sign and the digits ed write, 0 without digits
SignedDigits(neg, ed) ==
    IF ed = "" THEN 0 ELSE IF neg THEN -StrToNat(ed) ELSE StrToNat(ed)

SignedInteger(r) ==
    SignedDigits(StartsWith(r, "-"),
                 DigitPrefix(IF StartsWith(r, "-") \/ StartsWith(r, "+")
                             THEN Tail(r) ELSE r))

\* the exponent part at the start of r, 0 when there is none
ExponentPart(r) ==
    IF StartsWith(r, "e") \/ StartsWith(r, "E") THEN SignedInteger(Tail(r)) ELSE 0

\* ip the integer digits, fp = <<fraction digits, rest>>
ParseExponent(neg, ip, fp) ==
    IF ip = "" /\ fp[1] = "" THEN NaN
    ELSE Dec(neg, StrToDigits(ip \o fp[1]), Len(fp[1]) - ExponentPart(fp[2]))

\* ip = <<integer digits, rest>>
ParseFraction(neg, ip) ==
    ParseExponent(neg, ip[1],
                  IF StartsWith(ip[2], ".") THEN SplitDigits(Tail(ip[2]))
                  ELSE <<"", ip[2]>>)

ParseUnsigned(neg, u) ==
    IF StartsWith(u, "Infinity") THEN Inf(neg) ELSE ParseFraction(neg, SplitDigits(u))

ParseSigned(t) ==
    ParseUnsigned(StartsWith(t, "-"),
                  IF StartsWith(t, "-") \/ StartsWith(t, "+") THEN Tail(t) ELSE t)

\* parseFloat(s): the longest prefix of the trimmed s that is a decimal literal
parseFloat(s) == ParseSigned(SkipWhiteSpace(s))

\* the e with 10^e <= |x| < 10^(e+1), x finite and not 0, e0 being e or e + 1
ExponentNear(x, e0) ==
    IF BCmp(BShift(x.num, -e0), BShift(x.den, e0)) >= 0 THEN e0 ELSE e0 - 1

Exponent10(x) == ExponentNear(x, Len(DigitsOf(x.num)) - Len(DigitsOf(x.den)))

\* the digits ds with a point after the first, and the exponent e
ExponentialText(neg, f, ds, e) ==
    (IF neg THEN "-" ELSE "") \o Head(ds)
    \o (IF f = 0 THEN "" ELSE "." \o Tail(ds))
    \o "e" \o (IF e >= 0 THEN "+" ELSE "-")
    \o NatToStr(IF e >= 0 THEN e ELSE -e)

\* n0 is |x| * 10^(f - e0) rounded: f + 1 digits, or 10^(f + 1) when it rounded up
ExponentialRounded(neg, f, n0, e0) ==
    IF Len(DigitsOf(n0)) > f + 1
    THEN ExponentialText(neg, f, BToStr(BPow10(f)), e0 + 1)
    ELSE ExponentialText(neg, f, BToStr(n0), e0)

ExponentialOf(x, f, e0) == ExponentialRounded(x.neg, f, ScaledRound(x, f - e0), e0)

\* x.toExponential(f)
toExponential(x, f) ==
    IF x.k = "nan" THEN "NaN"
    ELSE IF x.k = "inf" THEN (IF x.neg THEN "-Infinity" ELSE "Infinity")
    ELSE IF IsZero(x) THEN "0" \o (IF f = 0 THEN "" ELSE "." \o Zeros(f)) \o "e+0"
    ELSE ExponentialOf(x, f, Exponent10(x))

\* the digits of an integer part in groups of three
RECURSIVE Group3(_)
Group3(s) ==
    IF Len(s) <= 3 THEN s
    ELSE Group3(SubSeq(s, 1, Len(s) - 3)) \o "," \o Drop(s, Len(s) - 3)

\* the integer digits ip in groups, and the fraction digits fp if there are any
LocaleText(neg, ip, fp) ==
    (IF neg THEN "-" ELSE "") \o Group3(ip) \o (IF fp = "" THEN "" ELSE "." \o fp)

LocaleSplit(neg, ds, maxFrac) ==
    LocaleText(neg, SubSeq(ds, 1, Len(ds) - maxFrac),
               StripTrailingZeros(Drop(ds, Len(ds) - maxFrac)))

\* x.toLocaleString('en-US', {maximumFractionDigits: maxFrac, minimumFractionDigits: 0})
toLocaleString(x, maxFrac) ==
    IF x.k = "nan" THEN "NaN"
    ELSE IF x.k = "inf" THEN (IF x.neg THEN "-Infinity-sign" ELSE "Infinity-sign")
    ELSE LocaleSplit(x.neg, PadLeft(BToStr(ScaledRound(x, maxFrac)), maxFrac + 1),
                     maxFrac)

(***************************************************************************)
(* CONVERSION FACTORS                                                      *)
(***************************************************************************)
\* the registry with two slips of the pen: no unit of weight has factor 1, and the
\* factor of pa is 0
ConversionFactorsSlip ==
    [length |->
        [mm |-> Lit(1, 3), cm |-> Lit(1, 2), m |-> Lit(1, 0), km |-> Lit(1000, 0),
         inch |-> Lit(254, 4), foot |-> Lit(3048, 4), yard |-> Lit(9144, 4),
         mile |-> Lit(1609344, 3)],
     weight |->
        [mg |-> Lit(1, 6), g |-> Lit(1, 3), kg |-> Lit(10, 0), oz |-> Lit(283495, 7),
         lb |-> Lit(453592, 6), ton |-> Lit(1000, 0)],
     volume |->
        [ml |-> Lit(1, 3), liter |-> Lit(1, 0), gallon |-> Lit(378541, 5),
         quart |-> Lit(946353, 6), pint |-> Lit(473176, 6), cup |-> Lit(236588, 6),
         fl_oz |-> Lit(295735, 7), tbsp |-> Lit(147868, 7), tsp |-> Lit(492892, 8)],
     speed |->
        [ms |-> Lit(1, 0), kmh |-> Lit(36, 1), mph |-> Lit(223694, 5),
         knots |-> Lit(194384, 5)],
     area |->
        [mm2 |-> Lit(1, 6), cm2 |-> Lit(1, 4), m2 |-> Lit(1, 0),
         km2 |-> Lit(1000000, 0), acre |-> Lit(404686, 2), hectare |-> Lit(10000, 0)],
     pressure |->
        [pa |-> Lit(0, 0), bar |-> Lit(100000, 0), atm |-> Lit(101325, 0),
         psi |-> Lit(689476, 2)]]

ConversionFactorsLiteral ==
    [length |->
        [mm |-> Lit(1, 3), cm |-> Lit(1, 2), m |-> Lit(1, 0), km |-> Lit(1000, 0),
         inch |-> Lit(254, 4), foot |-> Lit(3048, 4), yard |-> Lit(9144, 4),
         mile |-> Lit(1609344, 3)],
     weight |->
        [mg |-> Lit(1, 6), g |-> Lit(1, 3), kg |-> Lit(1, 0), oz |-> Lit(283495, 7),
         lb |-> Lit(453592, 6), ton |-> Lit(1000, 0)],
     volume |->
        [ml |-> Lit(1, 3), liter |-> Lit(1, 0), gallon |-> Lit(378541, 5),
         quart |-> Lit(946353, 6), pint |-> Lit(473176, 6), cup |-> Lit(236588, 6),
         fl_oz |-> Lit(295735, 7), tbsp |-> Lit(147868, 7), tsp |-> Lit(492892, 8)],
     speed |->
        [ms |-> Lit(1, 0), kmh |-> Lit(36, 1), mph |-> Lit(223694, 5),
         knots |-> Lit(194384, 5)],
     area |->
        [mm2 |-> Lit(1, 6), cm2 |-> Lit(1, 4), m2 |-> Lit(1, 0),
         km2 |-> Lit(1000000, 0), acre |-> Lit(404686, 2), hectare |-> Lit(10000, 0)],
     pressure |->
        [pa |-> Lit(1, 0), bar |-> Lit(100000, 0), atm |-> Lit(101325, 0),
         psi |-> Lit(689476, 2)]]

\* object[key]: undefined when the object has no such key
Prop(object, key) == IF key \in DOMAIN object THEN object[key] ELSE Undefined

(***************************************************************************)
(* CONVERSION FUNCTIONS                                                    *)
(***************************************************************************)
LinearDigits == 10
TemperatureDigits == 4

\* convertLength with the two factors used the way convertSpeed uses them
convertLengthDivideFirst(value, fromUnit, toUnit) ==
    IF Falsy(value) \/ isNaN(value) THEN Zero
    ELSE LET valueInMeters == JsDiv(value, Prop(conversionFactors.length, fromUnit))
             result == JsMul(valueInMeters, Prop(conversionFactors.length, toUnit))
         IN  parseFloat(toFixed(result, LinearDigits))

\* convertLength keeping 6 decimal places
convertLengthSixPlaces(value, fromUnit, toUnit) ==
    IF Falsy(value) \/ isNaN(value) THEN Zero
    ELSE LET valueInMeters == JsMul(value, Prop(conversionFactors.length, fromUnit))
             result == JsDiv(valueInMeters, Prop(conversionFactors.length, toUnit))
         IN  parseFloat(toFixed(result, 6))

convertLength(value, fromUnit, toUnit) ==
    IF Falsy(value) \/ isNaN(value) THEN Zero
    ELSE LET valueInMeters == JsMul(value, Prop(conversionFactors.length, fromUnit))
             result == JsDiv(valueInMeters, Prop(conversionFactors.length, toUnit))
         IN  parseFloat(toFixed(result, LinearDigits))

convertWeight(value, fromUnit, toUnit) ==
    IF Falsy(value) \/ isNaN(value) THEN Zero
    ELSE LET valueInKg == JsMul(value, Prop(conversionFactors.weight, fromUnit))
             result == JsDiv(valueInKg, Prop(conversionFactors.weight, toUnit))
         IN  parseFloat(toFixed(result, LinearDigits))

convertVolume(value, fromUnit, toUnit) ==
    IF Falsy(value) \/ isNaN(value) THEN Zero
    ELSE LET valueInLiters == JsMul(value, Prop(conversionFactors.volume, fromUnit))
             result == JsDiv(valueInLiters, Prop(conversionFactors.volume, toUnit))
         IN  parseFloat(toFixed(result, LinearDigits))

\* convertSpeed with the two factors used the way the other five converters use them
convertSpeedMultiplyFirst(value, fromUnit, toUnit) ==
    IF Falsy(value) \/ isNaN(value) THEN Zero
    ELSE LET valueInMs == JsMul(value, Prop(conversionFactors.speed, fromUnit))
             result == JsDiv(valueInMs, Prop(conversionFactors.speed, toUnit))
         IN  parseFloat(toFixed(result, LinearDigits))

convertSpeed(value, fromUnit, toUnit) ==
    IF Falsy(value) \/ isNaN(value) THEN Zero
    ELSE LET valueInMs == JsDiv(value, Prop(conversionFactors.speed, fromUnit))
             result == JsMul(valueInMs, Prop(conversionFactors.speed, toUnit))
         IN  parseFloat(toFixed(result, LinearDigits))

convertArea(value, fromUnit, toUnit) ==
    IF Falsy(value) \/ isNaN(value) THEN Zero
    ELSE LET valueInM2 == JsMul(value, Prop(conversionFactors.area, fromUnit))
             result == JsDiv(valueInM2, Prop(conversionFactors.area, toUnit))
         IN  parseFloat(toFixed(result, LinearDigits))

convertPressure(value, fromUnit, toUnit) ==
    IF Falsy(value) \/ isNaN(value) THEN Zero
    ELSE LET valueInPa == JsMul(value, Prop(conversionFactors.pressure, fromUnit))
             result == JsDiv(valueInPa, Prop(conversionFactors.pressure, toUnit))
         IN  parseFloat(toFixed(result, LinearDigits))

\* convertTemperature with the offset of Fahrenheit added where it is to be taken off
convertTemperatureOffsetSlip(value, fromUnit, toUnit) ==
    IF isNaN(value) THEN Zero
    ELSE LET celsius ==
                 CASE fromUnit = "celsius" -> value
                   [] fromUnit = "fahrenheit" ->
                        JsMul(JsAdd(value, Lit(32, 0)), JsDiv(Lit(5, 0), Lit(9, 0)))
                   [] fromUnit = "kelvin" -> JsSub(value, Lit(27315, 2))
                   [] OTHER -> value
             result ==
                 CASE toUnit = "celsius" -> celsius
                   [] toUnit = "fahrenheit" ->
                        JsAdd(JsMul(celsius, JsDiv(Lit(9, 0), Lit(5, 0))), Lit(32, 0))
                   [] toUnit = "kelvin" -> JsAdd(celsius, Lit(27315, 2))
                   [] OTHER -> celsius
         IN  parseFloat(toFixed(result, TemperatureDigits))

\* convertTemperature without its isNaN guard
convertTemperatureUnguarded(value, fromUnit, toUnit) ==
    LET celsius ==
            CASE fromUnit = "celsius" -> value
              [] fromUnit = "fahrenheit" ->
                   JsMul(JsSub(value, Lit(32, 0)), JsDiv(Lit(5, 0), Lit(9, 0)))
              [] fromUnit = "kelvin" -> JsSub(value, Lit(27315, 2))
              [] OTHER -> value
        result ==
            CASE toUnit = "celsius" -> celsius
              [] toUnit = "fahrenheit" ->
                   JsAdd(JsMul(celsius, JsDiv(Lit(9, 0), Lit(5, 0))), Lit(32, 0))
              [] toUnit = "kelvin" -> JsAdd(celsius, Lit(27315, 2))
              [] OTHER -> celsius
    IN  parseFloat(toFixed(ToNumber(result), TemperatureDigits))

convertTemperature(value, fromUnit, toUnit) ==
    IF isNaN(value) THEN Zero
    ELSE LET celsius ==
                 CASE fromUnit = "celsius" -> value
                   [] fromUnit = "fahrenheit" ->
                        JsMul(JsSub(value, Lit(32, 0)), JsDiv(Lit(5, 0), Lit(9, 0)))
                   [] fromUnit = "kelvin" -> JsSub(value, Lit(27315, 2))
                   [] OTHER -> value
             result ==
                 CASE toUnit = "celsius" -> celsius
                   [] toUnit = "fahrenheit" ->
                        JsAdd(JsMul(celsius, JsDiv(Lit(9, 0), Lit(5, 0))), Lit(32, 0))
                   [] toUnit = "kelvin" -> JsAdd(celsius, Lit(27315, 2))
                   [] OTHER -> celsius
         IN  parseFloat(toFixed(result, TemperatureDigits))

(***************************************************************************)
(* FORMAT OUTPUT                                                           *)
(***************************************************************************)
ExponentialDigits == 6
MaximumFractionDigits == 6
SmallLimit == Lit(1, 4)
LargeLimit == Lit(1000000, 0)

\* formatNumber with the two limits counted as outside the fixed range
formatNumberLimitsOutside(num) ==
    IF JsEq(num, Zero) THEN "0"
    ELSE IF ~JsLess(SmallLimit, Abs(num)) \/ ~JsLess(Abs(num), LargeLimit)
         THEN toExponential(num, ExponentialDigits)
    ELSE toLocaleString(num, MaximumFractionDigits)

formatNumber(num) ==
    IF JsEq(num, Zero) THEN "0"
    ELSE IF JsLess(Abs(num), SmallLimit) \/ JsLess(LargeLimit, Abs(num))
         THEN toExponential(num, ExponentialDigits)
    ELSE toLocaleString(num, MaximumFractionDigits)

(***************************************************************************)
(* The converters by name, and the unit symbols each one knows             *)
(***************************************************************************)
LinearConverters ==
    {"convertLength", "convertWeight", "convertVolume", "convertSpeed",
     "convertArea", "convertPressure"}

Converters == LinearConverters \cup {"convertTemperature"}

Call(f, value, fromUnit, toUnit) ==
    CASE f = "convertLength" -> convertLength(value, fromUnit, toUnit)
      [] f = "convertWeight" -> convertWeight(value, fromUnit, toUnit)
      [] f = "convertVolume" -> convertVolume(value, fromUnit, toUnit)
      [] f = "convertSpeed" -> convertSpeed(value, fromUnit, toUnit)
      [] f = "convertArea" -> convertArea(value, fromUnit, toUnit)
      [] f = "convertPressure" -> convertPressure(value, fromUnit, toUnit)
      [] f = "convertTemperature" -> convertTemperature(value, fromUnit, toUnit)

\* the table a linear converter reads
TableOf(f) ==
    CASE f = "convertLength" -> conversionFactors.length
      [] f = "convertWeight" -> conversionFactors.weight
      [] f = "convertVolume" -> conversionFactors.volume
      [] f = "convertSpeed" -> conversionFactors.speed
      [] f = "convertArea" -> conversionFactors.area
      [] f = "convertPressure" -> conversionFactors.pressure

TemperatureUnits == {"celsius", "fahrenheit", "kelvin"}

KnownUnits(f) ==
    IF f = "convertTemperature" THEN TemperatureUnits ELSE DOMAIN TableOf(f)

(***************************************************************************)
(* EVENT LISTENERS                                                         *)
(* f is the state of the form fields: f[d] holds the text of d's value     *)
(* field, the values of its two selectors and the text of its result field *)
(***************************************************************************)
\* parseFloat(text) || 0
OrZero(v) == IF Falsy(v) THEN Zero ELSE v
ParseOrZero(text) == OrZero(parseFloat(text))

updateLengthConversion(f) ==
    LET value == ParseOrZero(f.length.input)
        result == convertLength(value, f.length.fromUnit, f.length.toUnit)
    IN  [f EXCEPT !.length.result = formatNumber(result)]

updateWeightConversion(f) ==
    LET value == ParseOrZero(f.weight.input)
        result == convertWeight(value, f.weight.fromUnit, f.weight.toUnit)
    IN  [f EXCEPT !.weight.result = formatNumber(result)]

updateVolumeConversion(f) ==
    LET value == ParseOrZero(f.volume.input)
        result == convertVolume(value, f.volume.fromUnit, f.volume.toUnit)
    IN  [f EXCEPT !.volume.result = formatNumber(result)]

updateSpeedConversion(f) ==
    LET value == ParseOrZero(f.speed.input)
        result == convertSpeed(value, f.speed.fromUnit, f.speed.toUnit)
    IN  [f EXCEPT !.speed.result = formatNumber(result)]

updateAreaConversion(f) ==
    LET value == ParseOrZero(f.area.input)
        result == convertArea(value, f.area.fromUnit, f.area.toUnit)
    IN  [f EXCEPT !.area.result = formatNumber(result)]

updatePressureConversion(f) ==
    LET value == ParseOrZero(f.pressure.input)
        result == convertPressure(value, f.pressure.fromUnit, f.pressure.toUnit)
    IN  [f EXCEPT !.pressure.result = formatNumber(result)]

updateTemperatureConversion(f) ==
    LET value == ParseOrZero(f.temp.input)
        result == convertTemperature(value, f.temp.fromUnit, f.temp.toUnit)
    IN  [f EXCEPT !.temp.result = formatNumber(result)]

Domains == {"length", "weight", "volume", "speed", "area", "pressure", "temp"}

\* the listeners with updateLengthConversion registered on the controls of speed
ListenerCrossed(d, f) ==
    CASE d = "length" -> updateLengthConversion(f)
      [] d = "weight" -> updateWeightConversion(f)
      [] d = "volume" -> updateVolumeConversion(f)
      [] d = "speed" -> updateLengthConversion(f)
      [] d = "area" -> updateAreaConversion(f)
      [] d = "pressure" -> updatePressureConversion(f)
      [] d = "temp" -> updateTemperatureConversion(f)

\* the listener addEventListener registered on the three controls of domain d
Listener(d, f) ==
    CASE d = "length" -> updateLengthConversion(f)
      [] d = "weight" -> updateWeightConversion(f)
      [] d = "volume" -> updateVolumeConversion(f)
      [] d = "speed" -> updateSpeedConversion(f)
      [] d = "area" -> updateAreaConversion(f)
      [] d = "pressure" -> updatePressureConversion(f)
      [] d = "temp" -> updateTemperatureConversion(f)

\* the converter updating domain d's result field
ConverterOf(d) ==
    CASE d = "length" -> "convertLength"
      [] d = "weight" -> "convertWeight"
      [] d = "volume" -> "convertVolume"
      [] d = "speed" -> "convertSpeed"
      [] d = "area" -> "convertArea"
      [] d = "pressure" -> "convertPressure"
      [] d = "temp" -> "convertTemperature"

(***************************************************************************)
(* The page.  The HTML is not part of the source text: the model takes the *)
(* options of a selector to be the unit symbols of its domain, and draws   *)
(* the texts a user types from InputTexts.                                 *)
(***************************************************************************)
MaxEvents == 2

InputTexts == {"abc", "-40", "0.00005", "1234.5", " 2.5e3x"}

Options(d) == KnownUnits(ConverterOf(d))

DefaultUnit(d) ==
    CASE d = "length" -> "mm"
      [] d = "weight" -> "mg"
      [] d = "volume" -> "ml"
      [] d = "speed" -> "ms"
      [] d = "area" -> "mm2"
      [] d = "pressure" -> "pa"
      [] d = "temp" -> "celsius"

InitialTexts == {""}

InitialFields(text) ==
    [d \in Domains |->
        [input |-> text, fromUnit |-> DefaultUnit(d), toUnit |-> DefaultUnit(d),
         result |-> ""]]

\* the ids of the elements of class converter-section, and other ids of the page
ConverterSections ==
    {"length", "weight", "volume", "speed", "area", "pressure", "temperature"}

OtherElementIds == {"length-input", "length-result"}

ElementIds == ConverterSections \cup OtherElementIds

\* the elements of class nav-link: one for each section, a second one for length,
\* one whose data-category names no element, one whose data-category names an
\* element that is no section, and one without a data-category
SectionLinks == {<<"nav", c>> : c \in ConverterSections}

NavLinks ==
    SectionLinks \cup {<<"footer", "length">>, <<"nav", "about">>,
                       <<"nav", "length-input">>, <<"nav", "">>}

\* String(link.dataset.category), as getElementById reads it
DataCategory(link) == IF link[2] = "" THEN "undefined" ELSE link[2]

NoValue == [k |-> "none"]

Init ==
    /\ conversionFactors = ConversionFactorsLiteral
    /\ \E text \in InitialTexts : fields = InitialFields(text)
    /\ loaded = FALSE
    /\ linkActive = {<<"nav", "length">>}
    /\ elemActive = {"length"}
    /\ lastLink = <<>>
    /\ events = 0
    /\ pc = "idle"
    /\ fn = "none"
    /\ arg = NoValue
    /\ ret = NoValue
    /\ ret2 = NoValue
    /\ out = ""

calls == <<pc, fn, arg, ret, ret2, out>>

\* a user types in the value field of domain d: the field holds text, 'input' fires
InputEvent(d, text) ==
    /\ events < MaxEvents
    /\ events' = events + 1
    /\ fields' = Listener(d, [fields EXCEPT ![d].input = text])
    /\ UNCHANGED <<conversionFactors, loaded, linkActive, elemActive, lastLink, calls>>

\* a user picks unit in the from selector of domain d: 'change' fires
ChangeFromUnit(d, unit) ==
    /\ events < MaxEvents
    /\ events' = events + 1
    /\ fields' = Listener(d, [fields EXCEPT ![d].fromUnit = unit])
    /\ UNCHANGED <<conversionFactors, loaded, linkActive, elemActive, lastLink, calls>>

\* a user picks unit in the to selector of domain d: 'change' fires
ChangeToUnit(d, unit) ==
    /\ events < MaxEvents
    /\ events' = events + 1
    /\ fields' = Listener(d, [fields EXCEPT ![d].toUnit = unit])
    /\ UNCHANGED <<conversionFactors, loaded, linkActive, elemActive, lastLink, calls>>

\* a click handler that leaves the class on the links that carry it
NavClickKeepsLinks(link, links, elems) ==
    LET category == DataCategory(link)
        links2 == links \cup {link}
        elems1 == elems \ ConverterSections
        elems2 == IF category \in ElementIds THEN elems1 \cup {category} ELSE elems1
    IN  <<links2, elems2>>

\* the classes after a click on link: <<links carrying active, elements carrying active>>
NavClickResult(link, links, elems) ==
    LET category == DataCategory(link)
        links1 == links \ NavLinks
        links2 == links1 \cup {link}
        elems1 == elems \ ConverterSections
        elems2 == IF category \in ElementIds THEN elems1 \cup {category} ELSE elems1
    IN  <<links2, elems2>>

NavClick(link) ==
    /\ events < MaxEvents
    /\ events' = events + 1
    /\ linkActive' = NavClickResult(link, linkActive, elemActive)[1]
    /\ elemActive' = NavClickResult(link, linkActive, elemActive)[2]
    /\ lastLink' = link
    /\ UNCHANGED <<conversionFactors, fields, loaded, calls>>

DOMContentLoaded ==
    /\ ~loaded
    /\ loaded' = TRUE
    /\ fields' =
         updateTemperatureConversion(updatePressureConversion(updateAreaConversion(
         updateSpeedConversion(updateVolumeConversion(updateWeightConversion(
         updateLengthConversion(fields)))))))
    /\ UNCHANGED <<conversionFactors, linkActive, elemActive, lastLink, events, calls>>

Next ==
    \/ DOMContentLoaded
    \/ \E d \in Domains : \E text \in InputTexts : InputEvent(d, text)
    \/ \E d \in Domains : \E unit \in Options(d) : ChangeFromUnit(d, unit)
    \/ \E d \in Domains : \E unit \in Options(d) : ChangeToUnit(d, unit)
    \/ \E link \in NavLinks : NavClick(link)

Spec == Init /\ [][Next]_vars

(***************************************************************************)
(* Direct calls of the converters and of formatNumber: the arguments are   *)
(* drawn in the initial state, the actions apply the function.  A          *)
(* converter's result can then be converted back with the units swapped,   *)
(* or formatted.                                                           *)
(***************************************************************************)
UnknownUnit == "parsec"

ValueInputs ==
    {Zero, Lit(1, 0), Lit(100, 0), Lit(32, 0), Lit(-40, 0), Lit(25, 1), Lit(5, 5),
     Lit(12345, 1), Lit(1000000, 0), Lit(-27315, 2), Lit(1234567891, 12),
     NaN, Inf(FALSE), Inf(TRUE), Undefined}

FormatInputs ==
    {Zero, Lit(1, 4), Lit(-1, 4), Lit(1000000, 0), Lit(-1000000, 0), Lit(5, 5),
     Lit(12345, 1), Lit(9999, 8), Lit(10000001, 1), Lit(-1234567891, 3),
     Lit(99999996, 12), Lit(-5, 1), Lit(1234567891, 4), Lit(999999996, 7),
     Dec(FALSE, StrToDigits("9999999999996"), 7),
     NaN, Inf(FALSE), Inf(TRUE)}

UnitInputs(f) == KnownUnits(f) \cup {UnknownUnit}

InitFn ==
    /\ conversionFactors = ConversionFactorsLiteral
    /\ fields = InitialFields("")
    /\ loaded = FALSE
    /\ linkActive = {<<"nav", "length">>}
    /\ elemActive = {"length"}
    /\ lastLink = <<>>
    /\ events = 0
    /\ pc = "ready"
    /\ \/ /\ fn \in Converters
          /\ \E v \in ValueInputs : \E a \in UnitInputs(fn) : \E b \in UnitInputs(fn) :
                arg = [value |-> v, fromUnit |-> a, toUnit |-> b]
       \/ /\ fn = "formatNumber"
          /\ \E n \in FormatInputs : arg = [value |-> n]
    /\ ret = NoValue
    /\ ret2 = NoValue
    /\ out = ""

page == <<conversionFactors, fields, loaded, linkActive, elemActive, lastLink, events>>

\* ret = fn(value, fromUnit, toUnit)
Convert ==
    /\ pc = "ready"
    /\ fn \in Converters
    /\ ret' = Call(fn, arg.value, arg.fromUnit, arg.toUnit)
    /\ pc' = "returned"
    /\ UNCHANGED <<page, fn, arg, ret2, out>>

\* ret2 = fn(ret, toUnit, fromUnit)
ConvertBack ==
    /\ pc = "returned"
    /\ ret2' = Call(fn, ret, arg.toUnit, arg.fromUnit)
    /\ pc' = "back"
    /\ UNCHANGED <<page, fn, arg, ret, out>>

\* out = formatNumber(value)
Format ==
    /\ pc = "ready"
    /\ fn = "formatNumber"
    /\ out' = formatNumber(arg.value)
    /\ pc' = "formatted"
    /\ UNCHANGED <<page, fn, arg, ret, ret2>>

\* out = formatNumber(ret)
FormatResult ==
    /\ pc = "returned"
    /\ out' = formatNumber(ret)
    /\ pc' = "formatted"
    /\ UNCHANGED <<page, fn, arg, ret, ret2>>

NextFn == Convert \/ ConvertBack \/ Format \/ FormatResult

SpecFn == InitFn /\ [][NextFn]_vars

(***************************************************************************)
(* Properties                                                              *)
(***************************************************************************)
\* a converter has returned ret for the arguments arg
Returned == pc \in {"returned", "back"} /\ fn \in Converters

FiniteNonZero(x) == x.k = "fin" /\ x.num /= <<>>

\* x is a decimal with at most n digits after the point
DecimalPlaces(x, n) == x.k = "fin" /\ \E j \in 0..n : x.den = BPow10(j)

\* |x - y| <= tol, all three finite
Near(x, y, tol) ==
    x.k = "fin" /\ y.k = "fin" /\ ~JsLess(tol, Abs(JsSub(x, y)))

\* r is exact rounded to n decimal places (a non-finite exact is returned as it is)
RoundedTo(r, exact, n) ==
    IF exact.k = "fin" THEN DecimalPlaces(r, n) /\ Near(r, exact, Lit(5, n + 1))
    ELSE r = exact

MultiplicativeConverters == LinearConverters \ {"convertSpeed"}

\* C1: a multiplicative converter, given a non-zero finite value and two units of
\* its table, returns value * factor[from] / factor[to] rounded to 10 decimal places
C1_MultiplicativeResult ==
    (/\ Returned
     /\ fn \in MultiplicativeConverters
     /\ FiniteNonZero(arg.value)
     /\ arg.fromUnit \in DOMAIN TableOf(fn)
     /\ arg.toUnit \in DOMAIN TableOf(fn))
    => /\ RoundedTo(ret, JsDiv(JsMul(arg.value, TableOf(fn)[arg.fromUnit]),
                               TableOf(fn)[arg.toUnit]), 10)
       /\ (TableOf(fn)[arg.fromUnit] = Lit(1, 0)
           => RoundedTo(ret, JsDiv(arg.value, TableOf(fn)[arg.toUnit]), 10))

\* 1 mile in km has been computed: 1.609344
C1_Witness ==
    /\ Returned
    /\ fn = "convertLength"
    /\ arg = [value |-> Lit(1, 0), fromUnit |-> "mile", toUnit |-> "km"]
    /\ ret = Lit(1609344, 6)

\* the inverted formula of convertSpeed holds of the call that has returned
SpeedInverted ==
    (/\ Returned
     /\ fn = "convertSpeed"
     /\ FiniteNonZero(arg.value)
     /\ arg.fromUnit \in DOMAIN TableOf(fn)
     /\ arg.toUnit \in DOMAIN TableOf(fn))
    => /\ RoundedTo(ret, JsMul(JsDiv(arg.value, TableOf(fn)[arg.fromUnit]),
                               TableOf(fn)[arg.toUnit]), 10)
       /\ (TableOf(fn)[arg.fromUnit] /= TableOf(fn)[arg.toUnit]
           => ~RoundedTo(ret, JsDiv(JsMul(arg.value, TableOf(fn)[arg.fromUnit]),
                                    TableOf(fn)[arg.toUnit]), 10))

Speed100KmhToMph ==
    /\ Returned
    /\ fn = "convertSpeed"
    /\ arg = [value |-> Lit(100, 0), fromUnit |-> "kmh", toUnit |-> "mph"]

\* C2 as stated: the inverted formula, and 100 kmh to mph is 62.1371 to the four
\* decimals given
C2_AsStated ==
    /\ conversionFactors.speed =
          [ms |-> Lit(1, 0), kmh |-> Lit(36, 1), mph |-> Lit(223694, 5),
           knots |-> Lit(194384, 5)]
    /\ SpeedInverted
    /\ Speed100KmhToMph => Near(ret, Lit(621371, 4), Lit(5, 5))

\* C2 amended: the inverted formula, and 100 kmh to mph is 62.1372222222
C2_SpeedInverted ==
    /\ conversionFactors.speed =
          [ms |-> Lit(1, 0), kmh |-> Lit(36, 1), mph |-> Lit(223694, 5),
           knots |-> Lit(194384, 5)]
    /\ SpeedInverted
    /\ Speed100KmhToMph => ret = Dec(FALSE, StrToDigits("621372222222"), 10)

C2_Witness == Speed100KmhToMph /\ ret.k = "fin"

\* the value in Celsius of v in unit
ToCelsius(unit, v) ==
    CASE unit = "celsius" -> v
      [] unit = "fahrenheit" -> JsDiv(JsMul(JsSub(v, Lit(32, 0)), Lit(5, 0)), Lit(9, 0))
      [] unit = "kelvin" -> JsSub(v, Lit(27315, 2))
      [] OTHER -> v

\* the value in unit of c degrees Celsius
FromCelsius(unit, c) ==
    CASE unit = "celsius" -> c
      [] unit = "fahrenheit" -> JsAdd(JsDiv(JsMul(c, Lit(9, 0)), Lit(5, 0)), Lit(32, 0))
      [] unit = "kelvin" -> JsAdd(c, Lit(27315, 2))
      [] OTHER -> c

TemperatureCall(v, a, b) ==
    /\ Returned
    /\ fn = "convertTemperature"
    /\ arg = [value |-> v, fromUnit |-> a, toUnit |-> b]

\* C3: convertTemperature maps a number to Celsius by its source unit, out of Celsius
\* by its target unit (an unknown symbol being the identity on either side) and
\* rounds to 4 decimal places; the four fixed points
C3_TemperaturePipeline ==
    /\ (Returned /\ fn = "convertTemperature" /\ arg.value.k \in {"fin", "inf"})
       => RoundedTo(ret, FromCelsius(arg.toUnit, ToCelsius(arg.fromUnit, arg.value)), 4)
    /\ TemperatureCall(Zero, "celsius", "fahrenheit") => ret = Lit(32, 0)
    /\ TemperatureCall(Lit(100, 0), "celsius", "fahrenheit") => ret = Lit(212, 0)
    /\ TemperatureCall(Zero, "celsius", "kelvin") => ret = Lit(27315, 2)
    /\ TemperatureCall(Lit(32, 0), "fahrenheit", "celsius") => ret = Zero

\* 0.001234567891 kelvin in an unknown unit: the offset is taken off, nothing is
\* put back, four decimals are kept
C3_Witness ==
    /\ TemperatureCall(Lit(1234567891, 12), "kelvin", UnknownUnit)
    /\ ret = Lit(-2731488, 4)

\* formatNumber has returned out for the number FormatArg
Formatted == pc = "formatted"
FormatArg == IF fn = "formatNumber" THEN arg.value ELSE ret

AllDigits(s) == \A i \in 1..Len(s) : SubSeq(s, i, i) \in Digits

Unsigned(s) == IF StartsWith(s, "-") THEN Tail(s) ELSE s

\* d.dddddde+x or d.dddddde-x, with or without a leading "-"
IsExponential6(s) ==
    LET u == Unsigned(s) IN
    /\ Len(u) >= 11
    /\ SubSeq(u, 1, 1) \in Digits \ {"0"}
    /\ SubSeq(u, 2, 2) = "."
    /\ AllDigits(SubSeq(u, 3, 8))
    /\ SubSeq(u, 9, 9) = "e"
    /\ SubSeq(u, 10, 10) \in {"+", "-"}
    /\ AllDigits(Drop(u, 10))

\* digits in groups of three set off by commas, then nothing or a point and 1 to 6
\* digits of which the last is not 0, with or without a leading "-"
IsFixedGrouped(s) ==
    LET u == Unsigned(s)
        dots == {i \in 1..Len(u) : SubSeq(u, i, i) = "."}
        ip == IF dots = {} THEN u ELSE SubSeq(u, 1, Min(dots) - 1)
        fp == IF dots = {} THEN "" ELSE Drop(u, Min(dots))
    IN  /\ Len(ip) >= 1 /\ Len(ip) % 4 /= 0
        /\ \A i \in 1..Len(ip) :
              IF (Len(ip) - i + 1) % 4 = 0 THEN SubSeq(ip, i, i) = ","
              ELSE SubSeq(ip, i, i) \in Digits
        /\ (Len(ip) > 1 => SubSeq(ip, 1, 1) /= "0")
        /\ dots /= {} => /\ Len(fp) \in 1..6
                         /\ AllDigits(fp)
                         /\ SubSeq(fp, Len(fp), Len(fp)) /= "0"

RECURSIVE WithoutCommas(_)
WithoutCommas(s) ==
    IF s = "" THEN ""
    ELSE IF Head(s) = "," THEN WithoutCommas(Tail(s))
    ELSE Head(s) \o WithoutCommas(Tail(s))

OutsideFixedRange(n) == JsLess(Abs(n), Lit(1, 4)) \/ JsLess(Lit(1000000, 0), Abs(n))

\* C4: formatNumber gives "0" for 0; exponential notation with 6 digits after the
\* point for a finite number below 0.0001 or above 1,000,000 in size; and fixed
\* notation with grouping and at most 6 fractional digits for any other finite
\* number, 0.0001 and 1,000,000 in size included.  The text read back is the
\* number to the precision shown.  Of the numbers that are not finite, the
\* infinities take the exponential branch, which writes Infinity, and NaN takes the
\* fixed branch, which writes NaN.
C4_FormatCases ==
    Formatted =>
        LET n == FormatArg IN
        /\ IsZero(n) => out = "0"
        /\ (FiniteNonZero(n) /\ OutsideFixedRange(n)) =>
              /\ IsExponential6(out)
              /\ Near(parseFloat(out), n, JsMul(Lit(5, 7), Abs(n)))
        /\ (FiniteNonZero(n) /\ ~OutsideFixedRange(n)) =>
              /\ IsFixedGrouped(out)
              /\ Near(parseFloat(WithoutCommas(out)), n, Lit(5, 7))
        /\ (n.k = "fin" /\ Abs(n) \in {Lit(1, 4), Lit(1000000, 0)}) => IsFixedGrouped(out)
        /\ n.k = "inf" => out = (IF n.neg THEN "-Infinity" ELSE "Infinity")
        /\ n.k = "nan" => out = "NaN"

\* -1,000,000 has been formatted, in fixed notation
C4_Witness ==
    Formatted /\ fn = "formatNumber" /\ arg.value = Lit(-1000000, 0) /\ out = "-1,000,000"

NotFiniteOrAbsent(x) == x.k \in {"nan", "inf", "undef"}

\* C5 as stated: every converter returns 0 for a value that is NaN, an infinity or
\* undefined, whatever the units
C5_AsStated ==
    (Returned /\ NotFiniteOrAbsent(arg.value)) => ret = Zero

\* C5 amended: every converter returns 0 for a value that is NaN or undefined,
\* whatever the units; an infinity is not replaced: convertTemperature returns it,
\* and a linear converter returns it when both units are in its table, NaN otherwise
C5_InvalidInput ==
    Returned =>
        /\ arg.value.k \in {"nan", "undef"} => ret = Zero
        /\ arg.value.k = "inf" =>
              IF fn = "convertTemperature" THEN ret = arg.value
              ELSE IF {arg.fromUnit, arg.toUnit} \subseteq DOMAIN TableOf(fn)
                   THEN ret = arg.value
              ELSE ret = NaN

\* convertTemperature has returned 0 for undefined in an unknown unit
C5_Witness ==
    /\ TemperatureCall(Undefined, UnknownUnit, "kelvin")
    /\ ret = Zero

\* C6 as stated: a linear converter given a unit its table lacks does not return a
\* number
C6_UnknownUnitIsAnError ==
    (/\ Returned
     /\ fn \in LinearConverters
     /\ ~({arg.fromUnit, arg.toUnit} \subseteq DOMAIN TableOf(fn)))
    => ret.k \notin {"fin", "nan", "inf"}

\* how much converting back from unit b to unit a scales an error
BackGain(f, a, b) ==
    IF f = "convertTemperature"
    THEN JsMul(IF b = "fahrenheit" THEN JsDiv(Lit(5, 0), Lit(9, 0)) ELSE Lit(1, 0),
               IF a = "fahrenheit" THEN JsDiv(Lit(9, 0), Lit(5, 0)) ELSE Lit(1, 0))
    ELSE IF f = "convertSpeed" THEN JsDiv(TableOf(f)[a], TableOf(f)[b])
    ELSE JsDiv(TableOf(f)[b], TableOf(f)[a])

\* the unit of the last decimal place a converter keeps
LastPlace(f) == IF f = "convertTemperature" THEN Lit(1, 4) ELSE Lit(1, 10)

\* a finite value has gone from unit a to unit b and back, both units known
RoundTripDone ==
    /\ pc = "back"
    /\ fn \in Converters
    /\ arg.value.k = "fin"
    /\ {arg.fromUnit, arg.toUnit} \subseteq KnownUnits(fn)

RegistryDomains == {"length", "weight", "volume", "speed", "area", "pressure"}

\* C8: the registry holds what it held at the start, each of its six tables has a
\* unit of factor 1, and every factor is a finite number above 0
C8_RegistryIntact ==
    /\ conversionFactors = ConversionFactorsLiteral
    /\ DOMAIN conversionFactors = RegistryDomains
    /\ \A d \in RegistryDomains :
          /\ \E u \in DOMAIN conversionFactors[d] : conversionFactors[d][u] = Lit(1, 0)
          /\ \A u \in DOMAIN conversionFactors[d] :
                /\ FiniteNonZero(conversionFactors[d][u])
                /\ ~conversionFactors[d][u].neg

\* the page has loaded, a link has been clicked and a speed has been typed
C8_Witness ==
    /\ loaded
    /\ lastLink \in NavLinks
    /\ fields.speed.result = "1,234.5"

\* what the result field of domain d shows when computed from d's current fields
ExpectedResult(d) ==
    formatNumber(Call(ConverterOf(d), ParseOrZero(fields[d].input),
                      fields[d].fromUnit, fields[d].toUnit))

\* C9: once the page has loaded, the result field of every domain shows
\* formatNumber(convert(parseFloat(text) || 0, from, to)) of that domain's fields
\* (so that an event on the fields of one domain leaves the other results as they are)
C9_ResultsFollowFields ==
    loaded => \A d \in Domains : fields[d].result = ExpectedResult(d)

\* after loading, 1234.5 m/s has been typed and km/h picked: 4,444.2
C9_Witness ==
    /\ loaded
    /\ events = 2
    /\ fields.speed = [input |-> "1234.5", fromUnit |-> "ms", toUnit |-> "kmh",
                       result |-> "4,444.2"]

\* C10: after a click, the link clicked last is the one link that carries active,
\* and the sections that carry active are the section whose id is that link's
\* data-category, if there is one, and none otherwise
C10_OneActive ==
    lastLink \in NavLinks =>
        /\ linkActive = {lastLink}
        /\ elemActive \cap ConverterSections =
              (IF DataCategory(lastLink) \in ConverterSections
               THEN {DataCategory(lastLink)} ELSE {})
        /\ Cardinality(linkActive) = 1
        /\ Cardinality(elemActive \cap ConverterSections) <= 1

\* two clicks: the last one on the link whose data-category is the id of a field
C10_Witness ==
    /\ events = 2
    /\ lastLink = <<"nav", "length-input">>
    /\ linkActive = {lastLink}
    /\ "length-input" \in elemActive
    /\ elemActive \cap ConverterSections = {}

=============================================================================
